---- MODULE Spec2Model ----
(***************************************************************************)
(* A model of lib/index.js of proxy-cache: a caching proxy placed in front *)
(* of an object's asynchronous (node-style callback) methods.              *)
(*                                                                         *)
(* Strings are sequences of one-character strings, so that the key         *)
(* derivation ([method].concat(args).join(':')) is computed, not assumed.  *)
(* The event loop is modelled by its position: at top level an upstream    *)
(* completion or a scheduled tick may run and time may pass; while done()  *)
(* is fanning an outcome out (fan.active) only the running callback acts:  *)
(* it may call the wrapped methods again.  The clock does not move within  *)
(* one synchronous run, and callbacks return normally.                     *)
(***************************************************************************)
EXTENDS Integers, Sequences, FiniteSets, TLC

(* ------------------------------ bounds -------------------------------- *)

\* number of calls to wrapped methods in one behaviour
MaxCalls == 3

(* ------------------------- inputs of the model ------------------------ *)

\* the default of the max option
DefaultMax == 10000

\* the options ProxyCache is constructed with, after defaults(): small max
\* and maxAge, and every pair of values of max, stale, peek and tombstone
Opts(max, maxAge, stale, peek, tombstone) ==
  [max |-> max, maxAge |-> maxAge, stale |-> stale, peek |-> peek,
   tombstone |-> tombstone]

OptionChoices ==
  {Opts(2, 1, FALSE, TRUE, TRUE),
   Opts(2, 1, TRUE, FALSE, FALSE),
   Opts(1, 1, FALSE, FALSE, FALSE),
   Opts(1, 1, TRUE, TRUE, FALSE),
   Opts(1, 2, TRUE, FALSE, TRUE)}

\* arguments: numbers and strings, as JavaScript values
Num(n) == [type |-> "number", n |-> n]
Str(s) == [type |-> "string", s |-> s]

\* the wrapped method names of the instance
Methods == {<<"f">>}

\* the argument lists the callers use (without the trailing callback)
ArgLists == {<<Num(1)>>, <<Num(2)>>}

(* ------------------------------ values -------------------------------- *)

Undefined == [kind |-> "undefined"]
Null == [kind |-> "null"]
Obj(r) == [kind |-> "object", ref |-> r]

\* what the wrapped (upstream) method may produce
ResultKinds == {"object", "undefined", "error"}

\* the value of a property after a caller has written to it; the
\* properties of the object invocation i produced hold <<i>>
Mutated == <<>>

(* --------------------------- key derivation --------------------------- *)

Digit(n) == CASE n = 0 -> "0" [] n = 1 -> "1" [] n = 2 -> "2" [] n = 3 -> "3"
              [] n = 4 -> "4" [] n = 5 -> "5" [] n = 6 -> "6" [] n = 7 -> "7"
              [] n = 8 -> "8" [] n = 9 -> "9"

\* (changed) the string of an argument tells a number from a string
StringifyTyped(a) ==
  IF a.type = "number" THEN <<"n", Digit(a.n)>> ELSE <<"s">> \o a.s

\* String(x), as Array.prototype.join applies it to each element
Stringify(a) == IF a.type = "number" THEN <<Digit(a.n)>> ELSE a.s

RECURSIVE Join(_, _)
Join(parts, sep) ==
  IF Len(parts) = 0 THEN <<>>
  ELSE IF Len(parts) = 1 THEN parts[1]
  ELSE parts[1] \o sep \o Join(Tail(parts), sep)

\* ProxyCache.prototype._key
Key(method, args) ==
  Join(<<method>> \o [i \in 1..Len(args) |-> Stringify(args[i])], <<":">>)

AllKeys == {Key(m, a) : m \in Methods, a \in ArgLists}

(* ------------------- the cache store (lru-cache) ---------------------- *)
(* The store is a sequence of entries [key, value, age], least recently   *)
(* used first.  An entry carries its age, Date.now() - entry.now, instead *)
(* of the time it was written at; the passing of time ages every entry.   *)
(* Ages stop at maxAge + 1: beyond it an entry is stale whatever its age. *)

IndexOf(entries, k) ==
  IF \E i \in 1..Len(entries) : entries[i].key = k
  THEN CHOOSE i \in 1..Len(entries) : entries[i].key = k
  ELSE 0

Without(entries, i) ==
  [j \in 1..(Len(entries) - 1) |-> IF j < i THEN entries[j] ELSE entries[j + 1]]

\* an entry is stale once its age exceeds maxAge
IsStale(e, maxAge) == e.age > maxAge

\* LRU.has: resident and not stale
LRUHas(entries, k, maxAge) ==
  /\ IndexOf(entries, k) # 0
  /\ ~IsStale(entries[IndexOf(entries, k)], maxAge)

\* LRU.get (doUse) and LRU.peek (not doUse): the value read and the store
\* after the read.  A stale entry is deleted by the read, and is returned
\* only when the store allows stale reads.
LRURead(entries, k, maxAge, allowStale, doUse) ==
  LET i == IndexOf(entries, k) IN
  IF i = 0 THEN [value |-> Undefined, entries |-> entries]
  ELSE IF IsStale(entries[i], maxAge)
       THEN [value |-> IF allowStale THEN entries[i].value ELSE Undefined,
             entries |-> Without(entries, i)]
       ELSE [value |-> entries[i].value,
             entries |-> IF doUse THEN Append(Without(entries, i), entries[i])
                         ELSE entries]

RECURSIVE Trim(_, _)
Trim(entries, max) ==
  IF Len(entries) > max THEN Trim(Tail(entries), max) ELSE entries

\* LRU.set: write (or overwrite) the entry, make it the most recently
\* used, then evict least recently used entries while over capacity
LRUSet(entries, k, v, max) ==
  LET i == IndexOf(entries, k)
      e == [key |-> k, value |-> v, age |-> 0]
  IN Trim(Append(IF i = 0 THEN entries ELSE Without(entries, i), e), max)

(* ------------------------------ state --------------------------------- *)

VARIABLES
  options,   \* this.options: max, maxAge, stale, peek, tombstone
  cache,     \* this.cache: the entries of the LRU store
  inFlight,  \* per wrapped method, the inFlight object of its closure
  upstream,  \* the invocations of the underlying methods, in issue order
  calls,     \* the calls made to the wrapped methods, in issue order
  ticks,     \* the callbacks scheduled with tick(), in schedule order
  fan,       \* the position of a running done(), or NoFan
  heap,      \* the objects handed around: [data, child] by reference
  kids,      \* the nested objects the heap objects refer to
  origin,    \* history: per key, the invocation whose result was last stored
  stats,     \* what the metrics sink has received: counts per metric
  ctor       \* the construction: its arguments and how far it got

vars == <<options, cache, inFlight, upstream, calls, ticks, fan, heap,
          kids, origin, stats, ctor>>

NoFan == [active |-> FALSE]
NoError == [kind |-> "null"]
Error(i) == [kind |-> "error", of |-> i]

\* a property of inFlight: never assigned, assigned null, or an array
Unset == [kind |-> "undefined"]
\* (changed) done() leaves an empty array instead of null
ClearedToEmpty == [kind |-> "array", fns |-> <<>>]
Cleared == [kind |-> "null"]
Array(fns) == [kind |-> "array", fns |-> fns]
\* (changed) the queue of a pending key is not recognised
TruthyNever(x) == FALSE
\* if (inFlight[key])
Truthy(x) == x.kind = "array"

\* what a caller sees when it looks at a value it was handed
View(v, h, ks) ==
  IF v.kind = "object"
  THEN [kind |-> "object", data |-> h[v.ref].data, child |-> ks[h[v.ref].child]]
  ELSE v

\* clone(value, true, 1): a new object with the same properties; depth 1
\* stops the copy there, so the nested object is shared, not copied
Clone(v, h) ==
  IF v.kind = "object"
  THEN [value |-> Obj(Len(h) + 1), heap |-> Append(h, h[v.ref])]
  ELSE [value |-> v, heap |-> h]

\* (changed) the store is built from the defaults, not from the options
LRUFromDefaults ==
  [max |-> DefaultMax, maxAge |-> options.maxAge, stale |-> options.stale]
\* new LRU(this.options): what the store takes from the options
LRU == [max |-> options.max, maxAge |-> options.maxAge, stale |-> options.stale]

\* (changed) the store is never consulted
HasNever(k) == FALSE
\* (changed) an entry counts as soon as it is resident, expired or not
HasResident(k) == IndexOf(cache, k) # 0
\* ProxyCache.prototype._has
Has(k) == LRUHas(cache, k, LRU.maxAge)

\* ProxyCache.prototype._get: the copy handed out, the store and the heap
\* after the read
Get(k) ==
  LET r == LRURead(cache, k, LRU.maxAge, LRU.stale, ~options.peek)
      c == Clone(r.value, heap)
  IN [value |-> c.value, entries |-> r.entries, heap |-> c.heap]

\* the instance the calls are made on: its members, by name
Target == [type |-> "object", members |-> [m \in Methods |-> "function"]]

\* a wrapper stats.incr(name, 1, tags) or stats.timer(name, ..) as the sink
\* counts it
Incr(s, name) == [s EXCEPT ![name] = @ + 1]

\* (changed) a call that joins a queue is counted as a miss
OnJoinMiss(s) == Incr(s, "miss")
\* the call that joins a queue returns before the miss is counted
OnJoin(s) == s

\* what the constructor leaves when it returns, for the methods it wrapped
\* and the keys their calls can derive: the options after defaults(), an
\* empty store, nothing in flight
ConstructedWith(methods, keys) ==
  /\ options \in OptionChoices
  /\ cache = <<>>
  /\ inFlight = [m \in methods |-> [k \in keys |-> Unset]]
  /\ upstream = <<>>
  /\ calls = <<>>
  /\ ticks = <<>>
  /\ fan = NoFan
  /\ heap = <<>>
  /\ kids = <<>>
  /\ origin = [k \in keys |-> 0]
  /\ stats = [calls |-> 0, hit |-> 0, miss |-> 0, duration |-> 0]

Constructed == ConstructedWith(Methods, AllKeys)

\* the state after ProxyCache(Target, ['f'], options) has returned
Init ==
  /\ Constructed
  /\ ctor = [pc |-> "done", instance |-> Target,
             methods |-> [type |-> "array", items |-> <<<<"f">>>>]]

\* var present = result != undefined
Present(result) == result.kind \notin {"undefined", "null"}

\* (changed) undefined results are never stored
ShouldStorePresent(result, tombstone) == Present(result)
\* if (present || tombstone) self.cache.set(key, result)
ShouldStore(result, tombstone) == Present(result) \/ tombstone

\* (changed) the new callback goes to the front of the queue
PushFront(fns, callback) == <<callback>> \o fns
\* (changed) the new callback replaces the queue
PushReplace(fns, callback) == <<callback>>
\* inFlight[key].push(callback)
Push(fns, callback) == Append(fns, callback)

\* control is at top level of the event loop
TopLevel == ~fan.active
\* control is inside a callback that done() has invoked
InCallback == fan.active /\ fan.i > 1

\* the invocations of method m for key k that are issued and not completed
Outstanding(m, k) ==
  {i \in 1..Len(upstream) : /\ upstream[i].method = m
                            /\ upstream[i].key = k
                            /\ upstream[i].state = "outstanding"}

\* the latest invocation of method m for key k, or 0
Latest(m, k) ==
  LET is == {i \in 1..Len(upstream) : upstream[i].method = m /\ upstream[i].key = k}
  IN IF is = {} THEN 0 ELSE CHOOSE i \in is : \A j \in is : j <= i

(* ----------------------------- actions -------------------------------- *)

\* the callback of call c is invoked with an outcome
Invoke(cs, c, outcome, h, ks) ==
  [cs EXCEPT ![c].got = Append(@, [err |-> outcome.err,
                                    result |-> outcome.result,
                                    saw |-> View(outcome.result, h, ks)])]

\* (changed) the callback of a hit is invoked before the call returns
TickNow(ts, cs, c, cached, h, ks) ==
  [ticks |-> ts,
   calls |-> Invoke(cs, c, [err |-> NoError, result |-> cached], h, ks)]
\* tick(function(){ callback(null, cached); }): the callback of call c is
\* scheduled, the calls are as they were
Tick(ts, cs, c, cached, h, ks) ==
  [ticks |-> Append(ts, [call |-> c, value |-> cached]), calls |-> cs]

\* the function _wrap returns, called with args and a callback.  The
\* gauge of the store's size goes to the sink and leaves no state.
Call(m, args) ==
  LET c == Len(calls) + 1
      k == Key(m, args)
      e == IndexOf(cache, k)
      \* history: what the call found when it was issued
      rec == [method |-> m, args |-> args, key |-> k,
              live |-> Outstanding(m, k),
              prev |-> IF Outstanding(m, k) = {} THEN Latest(m, k) ELSE 0,
              fresh |-> IF e # 0 /\ cache[e].age <= options.maxAge
                        THEN origin[k] ELSE 0,
              stale |-> IF e # 0 /\ cache[e].age > options.maxAge
                        THEN origin[k] ELSE 0,
              got |-> <<>>]
  IN
  /\ TopLevel \/ InCallback
  /\ Len(calls) < MaxCalls
  /\ IF Has(k)
     THEN LET g == Get(k)
              t == Tick(ticks,
                        Append(calls, rec @@ [path |-> "hit", inv |-> 0,
                                              age |-> cache[e].age]),
                        c, g.value, g.heap, kids)
          IN
          /\ cache' = g.entries
          /\ heap' = g.heap
          /\ ticks' = t.ticks
          /\ calls' = t.calls
          /\ stats' = Incr(Incr(stats, "calls"), "hit")
          /\ UNCHANGED <<inFlight, upstream>>
     ELSE IF Truthy(inFlight[m][k])
     THEN /\ inFlight' = [inFlight EXCEPT ![m][k] = Array(Push(@.fns, c))]
          /\ calls' = Append(calls, rec @@ [path |-> "join", inv |-> 0,
                        age |-> 0])
          /\ stats' = OnJoin(Incr(stats, "calls"))
          /\ UNCHANGED <<cache, heap, ticks, upstream>>
     ELSE /\ inFlight' = [inFlight EXCEPT ![m][k] = Array(<<c>>)]
          /\ upstream' = Append(upstream,
                           [method |-> m, key |-> k, by |-> c,
                            state |-> "outstanding"])
          /\ calls' = Append(calls, rec @@ [path |-> "start",
                        inv |-> Len(upstream) + 1, age |-> 0])
          /\ stats' = Incr(Incr(stats, "calls"), "miss")
          /\ UNCHANGED <<cache, heap, ticks>>
  /\ UNCHANGED <<options, fan, kids, origin, ctor>>

\* the underlying method of invocation i calls back with an outcome of the
\* given kind: the wrapped callback pushed onto args, up to the point where
\* done() starts calling the queued callbacks
Complete(i, kind) ==
  LET m == upstream[i].method
      k == upstream[i].key
      result == CASE kind = "object" -> Obj(Len(heap) + 1)
                  [] kind = "null" -> Null
                  [] OTHER -> Undefined
      err == IF kind = "error" THEN Error(i) ELSE NoError
      stored == kind # "error" /\ ShouldStore(result, options.tombstone)
  IN
  /\ TopLevel
  /\ i \in 1..Len(upstream)
  /\ upstream[i].state = "outstanding"
  /\ IF kind = "object"
     THEN /\ heap' = Append(heap, [data |-> <<i>>, child |-> Len(kids) + 1])
          /\ kids' = Append(kids, <<i>>)
     ELSE UNCHANGED <<heap, kids>>
  /\ IF stored
     THEN /\ cache' = LRUSet(cache, k, result, LRU.max)
          /\ origin' = [origin EXCEPT ![k] = i]
     ELSE UNCHANGED <<cache, origin>>
  /\ upstream' = [upstream EXCEPT ![i] =
                    [method |-> m, key |-> k, by |-> @.by,
                     state |-> "completed", stored |-> stored,
                     outcome |-> [err |-> err, result |-> result]]]
  /\ fan' = [active |-> TRUE, method |-> m, key |-> k, inv |-> i, i |-> 1,
             len |-> Len(inFlight[m][k].fns),
             outcome |-> [err |-> err, result |-> result]]
  /\ stats' = Incr(stats, "duration")
  /\ UNCHANGED <<options, inFlight, calls, ticks, ctor>>

\* done(): fns.forEach calls the next of the callbacks that were queued
\* when forEach started
FanStep ==
  /\ fan.active
  /\ fan.i <= fan.len
  /\ calls' = Invoke(calls, inFlight[fan.method][fan.key].fns[fan.i], fan.outcome,
                     heap, kids)
  /\ fan' = [fan EXCEPT !.i = @ + 1]
  /\ UNCHANGED <<options, cache, inFlight, upstream, ticks, heap, kids,
                 origin, stats, ctor>>

\* inFlight[key] = null in the registry of one wrapped method
ClearAll(registry, k) == [j \in DOMAIN registry |-> Cleared]

ClearKey(registry, k) == [registry EXCEPT ![k] = Cleared]

\* done(): forEach is over, inFlight[key] = null
FanEnd ==
  /\ fan.active
  /\ fan.i > fan.len
  /\ inFlight' = [inFlight EXCEPT ![fan.method] = ClearKey(@, fan.key)]
  /\ fan' = NoFan
  /\ UNCHANGED <<options, cache, upstream, calls, ticks, heap, kids,
                 origin, stats, ctor>>

\* the scheduler runs the oldest tick: callback(null, cached)
RunTick ==
  /\ TopLevel
  /\ ticks # <<>>
  /\ calls' = Invoke(calls, Head(ticks).call,
                     [err |-> NoError, result |-> Head(ticks).value],
                     heap, kids)
  /\ ticks' = Tail(ticks)
  /\ UNCHANGED <<options, cache, inFlight, upstream, fan, heap, kids,
                 origin, stats, ctor>>

\* time passes: one unit of the clock
Advance ==
  /\ TopLevel
  /\ \E i \in 1..Len(cache) : cache[i].age <= options.maxAge
  /\ cache' = [i \in 1..Len(cache) |->
                 [cache[i] EXCEPT !.age =
                    IF @ > options.maxAge THEN @ ELSE @ + 1]]
  /\ UNCHANGED <<options, inFlight, upstream, calls, ticks, fan, heap,
                 kids, origin, stats, ctor>>

Next ==
  \/ \E m \in Methods, args \in ArgLists : Call(m, args)
  \/ \E i \in 1..Len(upstream), kind \in ResultKinds : Complete(i, kind)
  \/ FanStep
  \/ FanEnd
  \/ RunTick
  \/ Advance

Spec == Init /\ [][Next]_vars

\* the caller that was handed an object writes to it: to one of its
\* properties (deep = FALSE) or to a property of its nested object.  While
\* done() runs, the caller that acts is the one whose callback is running.
Mutate(c, deep) ==
  LET v == calls[c].got[1].result IN
  /\ c \in 1..Len(calls)
  /\ calls[c].got # <<>>
  /\ v.kind = "object"
  /\ \/ TopLevel
     \/ InCallback /\ c = inFlight[fan.method][fan.key].fns[fan.i - 1]
  /\ IF deep
     THEN /\ kids[heap[v.ref].child] # Mutated
          /\ kids' = [kids EXCEPT ![heap[v.ref].child] = Mutated]
          /\ UNCHANGED heap
     ELSE /\ heap[v.ref].data # Mutated
          /\ heap' = [heap EXCEPT ![v.ref].data = Mutated]
          /\ UNCHANGED kids
  /\ UNCHANGED <<options, cache, inFlight, upstream, calls, ticks, fan, origin,
                 stats, ctor>>

NextMutate ==
  \/ Next
  \/ \E c \in 1..Len(calls), deep \in BOOLEAN : Mutate(c, deep)

\* the options left at the defaults that do not bear on copying
InitMutate ==
  /\ Init
  /\ options.max = 2
  /\ ~options.stale
  /\ options.tombstone

SpecMutate == InitMutate /\ [][NextMutate]_vars

\* the callback that done() is running throws: the exception leaves
\* forEach and done(), so the callbacks after it are not invoked and
\* inFlight[key] = null is not reached
FanThrow ==
  /\ InCallback
  /\ fan' = NoFan
  /\ UNCHANGED <<options, cache, inFlight, upstream, calls, ticks, heap, kids,
                 origin, stats, ctor>>

NextThrow ==
  \/ Next
  \/ FanThrow

\* the callers' callbacks may throw, and the process goes on
SpecThrow == Init /\ [][NextThrow]_vars

\* argument lists that differ and join to the same string: a number or
\* the string of its digits, two arguments or one string that holds the
\* separator
KeyArgLists ==
  {<<Num(1), Num(2)>>, <<Str(<<"1">>), Num(2)>>, <<Str(<<"1", ":", "2">>)>>}

KeyKeys == {Key(m, a) : m \in Methods, a \in KeyArgLists}

\* the options left at the defaults that do not bear on the keys
InitKey ==
  /\ ConstructedWith(Methods, KeyKeys)
  /\ options.max = 2
  /\ ~options.stale
  /\ options.tombstone
  /\ ctor = [pc |-> "done", instance |-> Target,
             methods |-> [type |-> "array", items |-> <<<<"f">>>>]]

NextKey ==
  \/ \E m \in Methods, args \in KeyArgLists : Call(m, args)
  \/ \E i \in 1..Len(upstream), kind \in ResultKinds : Complete(i, kind)
  \/ FanStep
  \/ FanEnd
  \/ RunTick
  \/ Advance

\* the callers use argument lists whose keys collide
SpecKey == InitKey /\ [][NextKey]_vars

\* an instance with two wrapped methods, named f and 'f:1'
MethodNames == {<<"f">>, <<"f", ":", "1">>}

MethodArgLists == {<<>>, <<Num(1)>>}

MethodKeys == {Key(m, a) : m \in MethodNames, a \in MethodArgLists}

\* the state after ProxyCache(instance, ['f', 'f:1']) has returned
InitMethods ==
  /\ ConstructedWith(MethodNames, MethodKeys)
  /\ options.max = 2
  /\ ~options.stale
  /\ options.tombstone
  /\ ctor = [pc |-> "done",
             instance |-> [type |-> "object",
                           members |-> [m \in MethodNames |-> "function"]],
             methods |-> [type |-> "array",
                          items |-> <<<<"f">>, <<"f", ":", "1">>>>]]

NextMethods ==
  \/ \E m \in MethodNames, args \in MethodArgLists : Call(m, args)
  \/ \E i \in 1..Len(upstream), kind \in ResultKinds : Complete(i, kind)
  \/ FanStep
  \/ FanEnd
  \/ RunTick
  \/ Advance

\* the callers use both wrapped methods
SpecMethods == InitMethods /\ [][NextMethods]_vars

(* --------------------------- the constructor -------------------------- *)

\* the member names of the instances tried
Names == {<<"f">>, <<"g">>}

\* the values passed as instance: objects whose members are functions or
\* other values, and values that are not objects
Instances ==
  {[type |-> "object", members |-> ms] :
     ms \in UNION {[ns -> {"function", "value"}] : ns \in SUBSET Names}}
  \cup {[type |-> t] : t \in {"null", "undefined", "number", "string", "function"}}

\* the values passed as methods: arrays of names, and values that are not
\* arrays
MethodLists ==
  {[type |-> "array", items |-> ns] :
     ns \in {<<>>} \cup {<<a>> : a \in Names} \cup {<<a, b>> : a, b \in Names}}
  \cup {[type |-> t] : t \in {"undefined", "string"}}

\* typeof x: null is an "object"
TypeOf(x) == IF x.type = "null" THEN "object" ELSE x.type

\* typeof instance[name]; reading a property of null or undefined throws
TypeOfMember(instance, name) ==
  IF instance.type \in {"null", "undefined"} THEN "throws"
  ELSE IF instance.type = "object" /\ name \in DOMAIN instance.members
       THEN instance.members[name]
       ELSE "undefined"

\* ProxyCache(instance, methods, options): "done" when it returns the
\* wrapper, else the TypeError it throws.  The for-in over the members of
\* instance (_proxy) throws nothing, and runs no iteration for null.
ProxyCache(instance, methods) ==
  IF TypeOf(instance) # "object"
  THEN [pc |-> "threw", error |-> "Instance must be an object."]
  ELSE IF methods.type # "array"
  THEN [pc |-> "threw", error |-> "Methods must be an array."]
  ELSE IF \E i \in 1..Len(methods.items) :
            TypeOfMember(instance, methods.items[i]) = "throws"
  THEN [pc |-> "threw", error |-> "Cannot read property of null"]
  ELSE IF \E i \in 1..Len(methods.items) :
            TypeOfMember(instance, methods.items[i]) # "function"
  THEN [pc |-> "threw", error |-> "Can only cache methods!"]
  ELSE [pc |-> "done", error |-> ""]

\* before the constructor is called with an instance and a method list
InitConstruct ==
  /\ Constructed
  /\ ctor \in [pc : {"new"}, instance : Instances, methods : MethodLists,
               error : {""}]

\* the constructor runs
Construct ==
  /\ ctor.pc = "new"
  /\ ctor' = [ctor EXCEPT !.pc = ProxyCache(ctor.instance, ctor.methods).pc,
                          !.error = ProxyCache(ctor.instance, ctor.methods).error]
  /\ UNCHANGED <<options, cache, inFlight, upstream, calls, ticks, fan, heap,
                 kids, origin, stats>>

SpecConstruct == InitConstruct /\ [][Construct]_vars

(* ------------------------------ claims -------------------------------- *)

CallIds == 1..Len(calls)
Invocations == 1..Len(upstream)
Completed(i) == upstream[i].state = "completed"
\* invocation i has completed and done() has returned
FannedOut(i) == Completed(i) /\ ~(fan.active /\ fan.inv = i)
\* the calls that missed the cache while invocation i was outstanding
Waiters(i) == {c \in CallIds : i \in calls[c].live /\ calls[c].path # "hit"}
\* the outcome a callback was handed, without what the caller saw in it
Handed(g) == [err |-> g.err, result |-> g.result]
\* what the underlying method produced in invocation i, as a caller sees it
Produced(i) == [kind |-> "object", data |-> <<i>>, child |-> <<i>>]

\* C1 (coalescing): the calls that miss the cache while an invocation for
\* their method and key is outstanding start no invocation of their own,
\* and once that invocation has completed and its outcome is fanned out,
\* the call that started it and every such call have been called back
\* once, all with the outcome of that invocation.
C1_Coalescing ==
  \A i \in Invocations :
    /\ \A c \in Waiters(i) : calls[c].inv = 0 /\ calls[c].live = {i}
    /\ FannedOut(i) =>
         \A c \in Waiters(i) \cup {upstream[i].by} :
           /\ Len(calls[c].got) = 1
           /\ Handed(calls[c].got[1]) = upstream[i].outcome

C1_Witness ==
  \E i \in Invocations :
    /\ FannedOut(i)
    /\ Cardinality(Waiters(i)) >= 2
    /\ \A c \in Waiters(i) : Len(calls[c].got) = 1

\* C2: at no time are two invocations of the underlying methods
\* outstanding for the same derived key.
C2_OneInFlightPerKey ==
  \A i, j \in Invocations :
    (/\ i # j
     /\ upstream[i].state = "outstanding"
     /\ upstream[j].state = "outstanding") => upstream[i].key # upstream[j].key

C2_Witness ==
  \E i \in Invocations :
    /\ upstream[i].state = "outstanding"
    /\ Waiters(i) # {}
    /\ \E j \in Invocations : j < i /\ upstream[j].key = upstream[i].key

\* nothing is left to run: no invocation outstanding, no tick scheduled,
\* no done() running
Quiescent ==
  /\ TopLevel
  /\ ticks = <<>>
  /\ \A i \in Invocations : Completed(i)

\* C3: the callback of every call is invoked exactly once: never twice,
\* and, once every invocation has completed and nothing is left to run,
\* once; with an error, or with a null error and the result.
C3_CallbackExactlyOnce ==
  \A c \in CallIds :
    /\ Len(calls[c].got) <= 1
    /\ Quiescent => Len(calls[c].got) = 1

\* C4 (cache hit): a call that finds the entry of a successful invocation
\* with a defined result resident and not expired starts no invocation and
\* is handed, without error, a value equal to the one that invocation
\* produced.
C4_CacheHit ==
  \A c \in CallIds :
    (calls[c].fresh # 0 /\ Present(upstream[calls[c].fresh].outcome.result)) =>
      /\ calls[c].path = "hit"
      /\ calls[c].inv = 0
      /\ \A n \in 1..Len(calls[c].got) :
           /\ calls[c].got[n].err = NoError
           /\ calls[c].got[n].saw = Produced(calls[c].fresh)

C4_Witness ==
  \E c \in CallIds :
    /\ calls[c].fresh # 0
    /\ Present(upstream[calls[c].fresh].outcome.result)
    /\ Len(calls[c].got) = 1

\* the latest invocation for the call's method and key had completed with
\* an error when the call was issued
AfterError(c) ==
  calls[c].prev # 0 /\ upstream[calls[c].prev].outcome.err # NoError

\* C5 (error isolation): an invocation that fails leaves no entry for its
\* key to be served, and the next call for the key, whenever it is issued
\* after the failure, invokes the underlying method again.
C5_ErrorIsolation ==
  /\ (fan.active /\ fan.outcome.err # NoError) => ~LRUHas(cache, fan.key, options.maxAge)
  /\ \A c \in CallIds : AfterError(c) => calls[c].path = "start"

Empty(i) ==
  /\ Completed(i)
  /\ upstream[i].outcome.err = NoError
  /\ ~Present(upstream[i].outcome.result)

\* C7 (tombstone on): with tombstone enabled, an invocation that resolves
\* with an undefined result leaves an entry for its key, and a call that
\* finds that entry resident and not expired starts no invocation and is
\* handed the undefined result.
C7_TombstoneOn ==
  options.tombstone =>
    /\ (fan.active /\ Empty(fan.inv)) => LRUHas(cache, fan.key, options.maxAge)
    /\ \A c \in CallIds :
         (calls[c].fresh # 0 /\ Empty(calls[c].fresh)) =>
           /\ calls[c].path = "hit"
           /\ calls[c].inv = 0
           /\ \A n \in 1..Len(calls[c].got) :
                Handed(calls[c].got[n]) = [err |-> NoError, result |-> Undefined]

C7_Witness ==
  /\ options.tombstone
  /\ \E c \in CallIds :
       /\ calls[c].fresh # 0
       /\ Empty(calls[c].fresh)
       /\ Len(calls[c].got) = 1

\* C8 (tombstone off): with tombstone disabled, an invocation that resolves
\* with an undefined result leaves no entry for its key to be served, and
\* every call for the key issued after it invokes the underlying method
\* again.
C8_TombstoneOff ==
  ~options.tombstone =>
    /\ (fan.active /\ Empty(fan.inv)) => ~LRUHas(cache, fan.key, options.maxAge)
    /\ \A c \in CallIds :
         (calls[c].prev # 0 /\ Empty(calls[c].prev)) => calls[c].path = "start"

\* a value as handed to a caller shows what the underlying method produced
Pristine(view) ==
  view.kind = "object" => view.data # Mutated /\ view.child # Mutated

\* C9 (copy isolation): whatever the callers do to the values they were
\* handed, every value a caller is handed and every stored entry is as the
\* underlying method produced it.
C9_CopyIsolation ==
  /\ \A c \in CallIds : \A n \in 1..Len(calls[c].got) : Pristine(calls[c].got[n].saw)
  /\ \A e \in 1..Len(cache) : Pristine(View(cache[e].value, heap, kids))

\* C10 (capacity): the store never holds more than max entries.
C10_Capacity == Len(cache) <= options.max

\* the store is full and an entry that was written is no longer resident
C10_Witness ==
  /\ Len(cache) = options.max
  /\ \E k \in AllKeys : origin[k] # 0 /\ IndexOf(cache, k) = 0


\* the calls whose callbacks were queued for invocation i before it
\* completed, the call that started it included
Queued(i) == Waiters(i) \cup {upstream[i].by}

\* C11 (FIFO fan-out): at every point of the fan-out of a completed
\* invocation, with a result or with an error, the queued callbacks that
\* were invoked so far are the ones of the calls that arrived first, each
\* handed the outcome of the invocation.
C11_FifoFanOut ==
  fan.active =>
    \A c, d \in Queued(fan.inv) :
      /\ (c < d /\ calls[d].got # <<>>) => calls[c].got # <<>>
      /\ \A n \in 1..Len(calls[c].got) : Handed(calls[c].got[n]) = fan.outcome

\* the fan-out of three queued callbacks, two of them invoked
C11_Witness ==
  /\ fan.active
  /\ Cardinality(Queued(fan.inv)) >= 3
  /\ Cardinality({c \in Queued(fan.inv) : calls[c].got # <<>>}) = 2


\* what a call that found the entry of invocation i was to be served
Cached(i) ==
  IF Present(upstream[i].outcome.result) THEN Produced(i) ELSE Undefined

\* C12 (deferred hit delivery): the callback of a call served from the
\* cache is not invoked by the step that makes the call; it is invoked by
\* a later step of the scheduler, from top level, when it is the oldest
\* scheduled tick, and it is handed the value that was cached when the
\* call was made, whatever became of the entry in between.
C12_DeferredHit ==
  [][\A c \in 1..Len(calls') :
       (/\ calls'[c].path = "hit"
        /\ calls'[c].got # <<>>
        /\ (c \in CallIds => calls[c].got = <<>>))
       => /\ c \in CallIds
          /\ TopLevel
          /\ ticks # <<>>
          /\ Head(ticks).call = c
          /\ ticks' = Tail(ticks)
          /\ calls'[c].got = <<[err |-> NoError,
                                result |-> Head(ticks).value,
                                saw |-> Cached(calls[c].fresh)]>>]_vars

\* a hit was delivered after its entry had expired or had been evicted
C12_Witness ==
  \E c \in CallIds :
    /\ calls[c].path = "hit"
    /\ Len(calls[c].got) = 1
    /\ ~LRUHas(cache, calls[c].key, options.maxAge)


\* done() is fanning out the outcome of an invocation of m for key k
Fanning(m, k) == fan.active /\ fan.method = m /\ fan.key = k

Took(path) == Cardinality({c \in CallIds : calls[c].path = path})
NumCompleted == Cardinality({i \in Invocations : Completed(i)})

\* C14 as claimed (metrics accounting): calls counts every call, hit the
\* calls served from the cache, miss the calls that missed the cache, and
\* duration the completed invocations.
C14_MetricsAsClaimed ==
  /\ stats.calls = Len(calls)
  /\ stats.hit = Took("hit")
  /\ stats.miss = Len(calls) - Took("hit")
  /\ stats.duration = NumCompleted

\* C14 as amended: calls counts every call, hit the calls served from the
\* cache, miss the calls that missed the cache and started an invocation
\* of the underlying method (a call that joins an in-flight queue counts
\* as neither), and duration the completed invocations, never a hit.
C14_Metrics ==
  /\ stats.calls = Len(calls)
  /\ stats.hit = Took("hit")
  /\ stats.miss = Took("start")
  /\ stats.miss = Len(upstream)
  /\ stats.duration = NumCompleted

\* a hit, a joined call and a completed invocation have been counted
C14_Witness ==
  /\ Took("join") >= 1
  /\ stats.hit >= 1
  /\ stats.duration >= 1


\* the value is an object (null is not), the value is an array, the name
\* is a member of the instance that can be invoked
ObjectLike(instance) == instance.type = "object"
IsSequence(methods) == methods.type = "array"
Invocable(instance, name) ==
  /\ ObjectLike(instance)
  /\ name \in DOMAIN instance.members
  /\ instance.members[name] = "function"

\* C15: the constructor returns a wrapped instance only for an instance
\* that is object-like (null is not), a method list that is a sequence,
\* and names that are all invocable members of the instance; this for
\* every method list, the empty one included.
C15_ConstructionFails ==
  ctor.pc = "done" =>
    /\ ObjectLike(ctor.instance)
    /\ IsSequence(ctor.methods)
    /\ \A i \in 1..Len(ctor.methods.items) :
         Invocable(ctor.instance, ctor.methods.items[i])


\* the call was queued while done() was fanning out an outcome: it joined
\* a queue with no invocation outstanding behind it
JoinedFanOut(c) == calls[c].path = "join" /\ calls[c].live = {}

\* C16: a call made from inside a waiter's callback during the fan-out of
\* an outcome that was not cached is not lost: once nothing is left to
\* run, its callback has been invoked.
C16_ReentrantCallNotLost ==
  Quiescent => \A c \in CallIds : JoinedFanOut(c) => Len(calls[c].got) = 1

\* C17: a callback that throws during the fan-out does not block the key:
\* once control is back at top level, every callback that was queued for
\* a completed invocation has been invoked, and the registry has an entry
\* only for the keys with an invocation outstanding.
C17_ThrowDoesNotBlock ==
  TopLevel =>
    /\ \A i \in Invocations :
         Completed(i) => \A c \in Queued(i) : Len(calls[c].got) = 1
    /\ \A m \in DOMAIN inFlight : \A k \in DOMAIN inFlight[m] :
         Truthy(inFlight[m][k]) => Outstanding(m, k) # {}


\* the entry of key k in the store, or Unset when it has none
EntryOf(entries, k) ==
  IF IndexOf(entries, k) = 0 THEN Unset ELSE entries[IndexOf(entries, k)]

\* C18 (independence of keys): the steps of the completion of the
\* invocation for a key K1 (the wrapped callback, then done() calling each
\* queued callback and clearing the entry) invoke callbacks of calls for K1
\* only, and leave as they were, for every other key K2, the outstanding
\* invocations, the registry entry with its queue, and the cache entry,
\* unless the store was full and evicted it.
C18_KeysIndependent ==
  [][(Len(calls') = Len(calls) /\ (fan.active \/ fan'.active)) =>
       LET k1 == IF fan.active THEN fan.key ELSE fan'.key IN
       /\ \A c \in CallIds :
            calls'[c].got # calls[c].got => calls[c].key = k1
       /\ \A k2 \in AllKeys \ {k1} :
            /\ \A m \in Methods :
                 /\ inFlight'[m][k2] = inFlight[m][k2]
                 /\ {i \in 1..Len(upstream') :
                       /\ upstream'[i].method = m
                       /\ upstream'[i].key = k2
                       /\ upstream'[i].state = "outstanding"}
                      = Outstanding(m, k2)
            /\ \/ EntryOf(cache', k2) = EntryOf(cache, k2)
               \/ /\ EntryOf(cache', k2) = Unset
                  /\ Len(cache) >= LRU.max
                  /\ EntryOf(cache, k1) = Unset]_vars

\* done() is calling the callbacks queued for one key while another key
\* has an invocation outstanding and a queue of its own
C18_Witness ==
  /\ fan.active
  /\ fan.i > 1
  /\ \E k2 \in AllKeys \ {fan.key} :
       /\ Outstanding(fan.method, k2) # {}
       /\ Truthy(inFlight[fan.method][k2])
       /\ Len(inFlight[fan.method][k2].fns) = 2


\* the argument values the key derivation is applied to
KeyValues == {Num(1), Num(2), Str(<<"1">>), Str(<<"2">>), Str(<<"1", ":", "2">>)}

HasSeparator(str) == \E n \in 1..Len(str) : str[n] = ":"

\* the key is the method name and the strings of the arguments, in their
\* order, joined with ':'
KeyJoinsInOrder ==
  \A m \in Methods : \A a \in KeyValues : \A b \in KeyValues :
    /\ Key(m, <<a>>) = m \o <<":">> \o Stringify(a)
    /\ Key(m, <<a, b>>) =
         m \o <<":">> \o Stringify(a) \o <<":">> \o Stringify(b)
    /\ (/\ Stringify(a) # Stringify(b)
        /\ ~HasSeparator(Stringify(a))
        /\ ~HasSeparator(Stringify(b)))
         => Key(m, <<a, b>>) # Key(m, <<b, a>>)

\* two calls to the same method with argument lists that differ and join
\* to the same string
Collide(c, d) ==
  /\ calls[c].method = calls[d].method
  /\ calls[c].args \in KeyArgLists
  /\ calls[d].args \in KeyArgLists
  /\ calls[c].args # calls[d].args

\* C19 (key derivation): the key is the method name and the strings of the
\* arguments, in their order, joined with ':', so that swapping two
\* arguments with different separator-free strings changes the key; and
\* of two calls to one method whose argument lists differ and join to the
\* same string, the second has the key of the first, starts no invocation
\* and waits for the first's while that is outstanding, and is served the
\* entry the first's invocation stored while that is resident and fresh.
C19_KeyDerivation ==
  /\ KeyJoinsInOrder
  /\ \A c \in CallIds : \A d \in CallIds :
       (c < d /\ Collide(c, d) /\ calls[c].path = "start") =>
         /\ calls[d].key = calls[c].key
         /\ calls[c].inv \in calls[d].live =>
              /\ calls[d].path = "join"
              /\ calls[d].inv = 0
              /\ calls[d].live = {calls[c].inv}
         /\ (/\ calls[d].fresh = calls[c].inv
             /\ Present(upstream[calls[c].inv].outcome.result)) =>
              /\ calls[d].path = "hit"
              /\ calls[d].inv = 0
              /\ \A n \in 1..Len(calls[d].got) :
                   /\ calls[d].got[n].err = NoError
                   /\ calls[d].got[n].saw = Produced(calls[c].inv)

\* f(1, 2) starts an invocation, f('1', 2) waits for it, and f('1:2') is
\* then served its result from the cache
C19_Witness ==
  \E c \in CallIds : \E d \in CallIds : \E e \in CallIds :
    /\ calls[c].args = <<Num(1), Num(2)>>
    /\ calls[c].path = "start"
    /\ calls[d].args = <<Str(<<"1">>), Num(2)>>
    /\ calls[d].path = "join"
    /\ calls[c].inv \in calls[d].live
    /\ calls[e].args = <<Str(<<"1", ":", "2">>)>>
    /\ calls[e].fresh = calls[c].inv
    /\ Len(calls[e].got) = 1
    /\ calls[e].got[1].saw = Produced(calls[c].inv)


\* every outcome a call was handed came from an invocation of the method
\* the call was made to
OwnResults ==
  \A c \in CallIds : \A n \in 1..Len(calls[c].got) : \A i \in Invocations :
    (Completed(i) /\ \/ calls[c].got[n].saw = Produced(i)
                     \/ calls[c].got[n].err = Error(i))
      => upstream[i].method = calls[c].method

\* no two outstanding invocations, of whatever methods, have the same key
OneInFlightAcrossMethods ==
  \A i \in Invocations : \A j \in Invocations :
    (/\ i # j
     /\ upstream[i].state = "outstanding"
     /\ upstream[j].state = "outstanding")
      => upstream[i].key # upstream[j].key

\* C20 (method separation): with several wrapped methods on one instance,
\* whatever their names and argument lists, no call is handed a result
\* that an invocation of another method produced, and no two invocations
\* with the same key are outstanding at the same time.
C20_MethodSeparation ==
  /\ OwnResults
  /\ OneInFlightAcrossMethods

====
